---- MODULE Spec2Model ----
(***************************************************************************)
(* Subset build orchestrator of local_google_font_api:                     *)
(*   src/font_service.py  FontService (range parsing, cache keys, the      *)
(*                        parallel subset build, metadata files and the    *)
(*                        per-family metadata cache)                       *)
(*   src/server.py        _generate_css / handle_css (stylesheet rules)    *)
(* Strings are sequences of one-character strings, so that split, strip,   *)
(* upper, removesuffix and int(.., 16) are computed as Python computes     *)
(* them.                                                                   *)
(***************************************************************************)
EXTENDS Integers, Sequences, FiniteSets, TLC

\* ------------------------------------------------------------------------
\* Python str helpers
\* ------------------------------------------------------------------------

\* the element of a one-element set. Only({e(v) : v \in {x}}) is e applied to
\* the value of x: x is evaluated once, as Python evaluates an assignment
Only(S) == CHOOSE r \in S : TRUE

Whitespace == {" ", "\t", "\n"}

LowerToUpper ==
  [c \in {"a", "b", "c", "d", "e", "f", "u", "x", "i", "t", "l", "o", "m"} |->
     CASE c = "a" -> "A" [] c = "b" -> "B" [] c = "c" -> "C" [] c = "d" -> "D"
       [] c = "e" -> "E" [] c = "f" -> "F" [] c = "u" -> "U" [] c = "x" -> "X"
       [] c = "i" -> "I" [] c = "t" -> "T" [] c = "l" -> "L" [] c = "o" -> "O"
       [] c = "m" -> "M" [] OTHER -> c]

\* str.upper()
Upper(s) ==
  Only({ [i \in 1..Len(v) |-> IF v[i] \in DOMAIN LowerToUpper THEN LowerToUpper[v[i]] ELSE v[i]] : v \in {s} })

\* str.startswith(p)
StartsWith(s, p) == \E v \in {s} : Len(v) >= Len(p) /\ SubSeq(v, 1, Len(p)) = p

\* str.endswith(p)
EndsWith(s, p) == \E v \in {s} : Len(v) >= Len(p) /\ SubSeq(v, Len(v) - Len(p) + 1, Len(v)) = p

\* str.removesuffix(p)
RemoveSuffix(s, p) ==
  Only({ IF Len(p) > 0 /\ EndsWith(v, p) THEN SubSeq(v, 1, Len(v) - Len(p)) ELSE v : v \in {s} })

\* smallest / largest element of a non-empty set of integers
Min(S) == CHOOSE i \in S : \A j \in S : i <= j
Max(S) == CHOOSE i \in S : \A j \in S : j <= i

\* the text between the first and the last character of v at a position in
\* nonws
StripTo(v, nonws) == IF nonws = {} THEN <<>> ELSE SubSeq(v, Min(nonws), Max(nonws))

\* str.strip()
Strip(s) ==
  Only({ Only({ StripTo(v, nonws) : nonws \in {{i \in 1..Len(v) : v[i] \notin Whitespace}} }) : v \in {s} })

\* positions at which the substring p starts in s
Occurrences(s, p) ==
  Only({ {i \in 1..(Len(v) - Len(p) + 1) : SubSeq(v, i, i + Len(p) - 1) = p} : v \in {s} })

\* p in s
Contains(s, p) == Occurrences(s, p) # {}

RECURSIVE SplitFrom(_, _, _, _)
\* the parts of s from position from on, s and from being values
SplitFrom(s, sep, from, maxsplit) ==
  Only({ IF occ = {} \/ maxsplit = 0 THEN <<SubSeq(s, from, Len(s))>>
         ELSE Only({ <<SubSeq(s, from, i - 1)>> \o SplitFrom(s, sep, i + Len(sep), maxsplit - 1)
                     : i \in {Min(occ)} })
         : occ \in {{i \in Occurrences(s, sep) : i >= from}} })

\* str.split(sep)
Split(s, sep) == Only({ SplitFrom(v, sep, 1, -1) : v \in {s} })

\* str.split(sep, 1)
Split1(s, sep) == Only({ SplitFrom(v, sep, 1, 1) : v \in {s} })

RECURSIVE ReplaceFrom(_, _, _, _)
ReplaceFrom(s, old, new, from) ==
  Only({ IF occ = {} THEN SubSeq(s, from, Len(s))
         ELSE Only({ SubSeq(s, from, i - 1) \o new \o ReplaceFrom(s, old, new, i + Len(old))
                     : i \in {Min(occ)} })
         : occ \in {{i \in Occurrences(s, old) : i >= from}} })

\* str.replace(old, new), old non-empty
Replace(s, old, new) == Only({ ReplaceFrom(v, old, new, 1) : v \in {s} })

\* str(i) for a small non-negative index
DigitChars == <<"0", "1", "2", "3", "4", "5", "6", "7", "8", "9">>

RECURSIVE IntToStr(_)
IntToStr(i) == IF i < 10 THEN <<DigitChars[i + 1]>> ELSE IntToStr(i \div 10) \o <<DigitChars[(i % 10) + 1]>>

\* ------------------------------------------------------------------------
\* int(text, 16): NoInt stands for ValueError
\* ------------------------------------------------------------------------

NoInt == -1000000

HexValue ==
  [c \in {"0", "1", "2", "3", "4", "5", "6", "7", "8", "9", "A", "B", "C", "D", "E", "F",
          "a", "b", "c", "d", "e", "f"} |->
     CASE c = "0" -> 0 [] c = "1" -> 1 [] c = "2" -> 2 [] c = "3" -> 3 [] c = "4" -> 4
       [] c = "5" -> 5 [] c = "6" -> 6 [] c = "7" -> 7 [] c = "8" -> 8 [] c = "9" -> 9
       [] c \in {"A", "a"} -> 10 [] c \in {"B", "b"} -> 11 [] c \in {"C", "c"} -> 12
       [] c \in {"D", "d"} -> 13 [] c \in {"E", "e"} -> 14 [] c \in {"F", "f"} -> 15]

RECURSIVE HexDigits(_, _, _)
\* value of the digits of s from position k on, in which single underscores
\* may separate digits
HexDigits(s, k, acc) ==
  IF k > Len(s) THEN acc
  ELSE IF s[k] = "_"
       THEN IF k < Len(s) /\ s[k + 1] \in DOMAIN HexValue THEN HexDigits(s, k + 1, acc) ELSE NoInt
       ELSE IF s[k] \in DOMAIN HexValue THEN HexDigits(s, k + 1, acc * 16 + HexValue[s[k]])
       ELSE NoInt

\* text without its sign
Unsigned(t) == IF Len(t) > 0 /\ t[1] \in {"+", "-"} THEN Tail(t) ELSE t

\* text without its 0x prefix; after the prefix one underscore may precede the
\* first digit
Unprefixed(u) ==
  IF Len(u) >= 2 /\ u[1] = "0" /\ u[2] \in {"x", "X"}
  THEN (IF Len(u) >= 3 /\ u[3] = "_" THEN SubSeq(u, 4, Len(u)) ELSE SubSeq(u, 3, Len(u)))
  ELSE u

\* value of a digit string that starts with a digit
Digits16(d) == IF Len(d) = 0 \/ d[1] \notin DOMAIN HexValue THEN NoInt ELSE HexDigits(d, 1, 0)

\* n with the sign of the stripped text t
Signed(t, n) == IF n = NoInt THEN NoInt ELSE IF Len(t) > 0 /\ t[1] = "-" THEN 0 - n ELSE n

Int16(text) ==
  Only({ Only({ Only({ Signed(t, n) : n \in {Digits16(d)} }) : d \in {Unprefixed(Unsigned(t))} })
         : t \in {Strip(text)} })

\* ------------------------------------------------------------------------
\* FontService.parse_unicode_range
\* ------------------------------------------------------------------------

UPlus == <<"U", "+">>

StripPrefixU(s) == Only({ IF StartsWith(v, UPlus) THEN SubSeq(v, 3, Len(v)) ELSE v : v \in {s} })

\* the range branch, start and end being the values of the two int() calls
RangeOf(start, end) == IF start = NoInt \/ end = NoInt THEN {} ELSE start..end

\* the range branch for the two halves se of a part
ParseRange(se) ==
  Only({ Only({ RangeOf(start, end) : end \in {Int16(StripPrefixU(Upper(Strip(se[2]))))} })
         : start \in {Int16(StripPrefixU(Upper(Strip(se[1]))))} })

\* the single-character branch
ParseChar(p) == Only({ IF v = NoInt THEN {} ELSE {v} : v \in {Int16(StripPrefixU(Upper(Strip(p))))} })

\* the codepoints one stripped part adds to the result
ParsePart(part) ==
  Only({ IF Len(p) = 0 THEN {}
         ELSE IF Contains(p, <<"-">>) THEN Only({ ParseRange(se) : se \in {Split1(p, <<"-">>)} })
         ELSE ParseChar(p)
         : p \in {part} })

parse_unicode_range(range_str) ==
  Only({ UNION {ParsePart(Strip(parts[i])) : i \in 1..Len(parts)} : parts \in {Split(range_str, <<",">>)} })

\* ------------------------------------------------------------------------
\* Configuration and environment inputs
\* ------------------------------------------------------------------------

\* "U+0041-0043", "U+0042", "U+FFFF" and two specs that parse to the empty set
RangeA     == <<"U", "+", "0", "0", "4", "1", "-", "0", "0", "4", "3">>
RangeB     == <<"u", "+", "4", "2">>
RangeNone  == <<"U", "+", "F", "F", "F", "F">>
RangeBad   == <<"U", "+", "z", "z">>

\* the tables font_subset.SUBSET is drawn from
SubsetTables ==
  { <<RangeA, RangeNone, RangeB>>,
    <<RangeA, RangeBad, RangeB>> }

\* query strings of the stylesheet requests: the family parameter as sent,
\* display present or absent
FamilyItalicFirst == <<"D", "e", "m", "o", ":", "4", "0", "0", "i", "t", "a", "l", "i", "c", ",", "7", "0", "0">>
FamilyTwoSpecs    == <<"D", "e", "m", "o", ":", "i", "t", "a", "l", "i", "c", "|", "D", "e", "m", "o">>

Queries ==
  { [family |-> FamilyItalicFirst],
    [family |-> FamilyTwoSpecs, display |-> "block"] }

\* a request without parameters, and the two specs in the other order
NoParameters     == <<>>
FamilySwapped    == <<"D", "e", "m", "o", "|", "D", "e", "m", "o", ":", "i", "t", "a", "l", "i", "c">>

\* the requests of a process whose metadata directory changes while it serves
ServeQueries ==
  { NoParameters,
    [family |-> FamilyTwoSpecs],
    [family |-> FamilySwapped] }

\* stylesheet requests served
MaxRequests == 2

\* values of multiprocessing.cpu_count()
CpuCounts == {2, 8}

\* the font files of FONT_DIR
FontFileNames == { <<"D", "e", "m", "o", ".", "t", "t", "f">> }

\* the cmaps the font file may hold
Cmaps == { {65, 66}, {65} }

FontStates == {[exists |-> FALSE, cmap |-> {}]} \cup {[exists |-> TRUE, cmap |-> c] : c \in Cmaps}

\* a create_subset pass may start this many times
MaxPasses == 2

\* the table, cpu count and font of the serving process
ServeTable == <<RangeA>>
ServeCpus  == 4
ServeFont  == [exists |-> TRUE, cmap |-> {65}]

\* the tokens range strings are made of: a codepoint, a lower-case range, a
\* token with non-hex letters, a range without its end, a token with an
\* underscore between the digits
Tokens ==
  { <<"U", "+", "4", "1">>,
    <<"u", "+", "4", "2", "-", "4", "3">>,
    <<"U", "+", "z", "z">>,
    <<"U", "+", "4", "4", "-">>,
    <<"U", "+", "4", "_", "5">> }

\* a range string has at most this many tokens
MaxTokens == 3

RECURSIVE JoinComma(_)
\* ",".join(tokens)
JoinComma(tokens) ==
  IF Len(tokens) = 0 THEN <<>>
  ELSE IF Len(tokens) = 1 THEN tokens[1]
  ELSE tokens[1] \o <<",">> \o JoinComma(Tail(tokens))

RangeStrings == {JoinComma(t) : t \in UNION {[1..n -> Tokens] : n \in 0..MaxTokens}}

\* ------------------------------------------------------------------------
\* Floats: a quotient of two lengths, kept as a reduced fraction
\* ------------------------------------------------------------------------

RECURSIVE Gcd(_, _)
Gcd(a, b) == IF b = 0 THEN a ELSE Gcd(b, a % b)

\* len(a) / len(b), b # 0
FloatDiv(a, b) == LET g == Gcd(a, b) IN [num |-> a \div g, den |-> b \div g]

Float0 == [num |-> 0, den |-> 1]

\* ------------------------------------------------------------------------
\* Cache keys and paths
\* ------------------------------------------------------------------------

\* hashlib.md5(..).hexdigest(): the digests of the key strings of the font
\* files and subset indices above, as md5 computes them; the digest of any
\* other text is not computed and stands as a tag of the text
md5_hexdigest(text) ==
  CASE text = <<"D", "e", "m", "o", ":", "0">>
      -> <<"c", "9", "d", "7", "7", "7", "9", "d", "2", "2", "9", "4", "6", "f", "0", "3", "4", "b", "e", "0", "0", "2", "b", "c", "2", "1", "6", "9", "f", "2", "e", "b">>
    [] text = <<"D", "e", "m", "o", ":", "1">>
      -> <<"0", "3", "1", "a", "2", "3", "a", "4", "2", "9", "1", "e", "4", "d", "4", "4", "8", "4", "8", "e", "5", "d", "5", "0", "8", "b", "6", "6", "2", "7", "2", "4">>
    [] text = <<"D", "e", "m", "o", ":", "2">>
      -> <<"1", "5", "4", "4", "c", "2", "8", "1", "6", "a", "4", "8", "5", "b", "4", "0", "b", "4", "2", "b", "8", "c", "2", "9", "4", "6", "6", "4", "e", "4", "0", "e">>
    [] text = <<"D", "e", "m", "o", ":", "3">>
      -> <<"2", "3", "3", "9", "c", "5", "3", "3", "b", "a", "4", "d", "0", "6", "0", "b", "9", "c", "c", "4", "c", "c", "b", "3", "0", "f", "f", "6", "0", "7", "d", "4">>
    [] text = <<"D", "e", "m", "o">>
      -> <<"f", "0", "2", "5", "8", "b", "6", "6", "8", "5", "6", "8", "4", "c", "1", "1", "3", "b", "a", "d", "9", "4", "d", "9", "1", "b", "8", "f", "a", "0", "2", "a">>
    [] OTHER -> <<"#">> \o text

\* variant: the subset name is left out of the hashed text
get_subset_cache_key_NoSubset(font_name, subset_name) == md5_hexdigest(font_name)

get_subset_cache_key(font_name, subset_name) ==
  LET key_str == font_name \o <<":">> \o subset_name
  IN  md5_hexdigest(key_str)

ExtWoff2 == <<".", "w", "o", "f", "f", "2">>
ExtJson  == <<".", "j", "s", "o", "n">>
ExtTtf   == <<".", "t", "t", "f">>
ExtOtf   == <<".", "o", "t", "f">>

\* font_family of create_subset
FontFamilyOf(font_file_name) == RemoveSuffix(RemoveSuffix(font_file_name, ExtTtf), ExtOtf)

\* str(subset_name) of the enumerate index (0-based) of position i (1-based)
SubsetName(i) == IntToStr(i - 1)

\* METADATA_DIR / font_family / (woff2_file_name + ".json")
MetaPath(font_family, woff2_file_name) == <<font_family, woff2_file_name \o ExtJson>>

\* CACHE_DIR / (woff2_file_name + ".woff2")
CachePath(woff2_file_name) == woff2_file_name \o ExtWoff2

\* json.dumps / json.loads of a metadata dict
json_dumps(doc) == [valid |-> TRUE, doc |-> doc]

\* ------------------------------------------------------------------------
\* Coverage
\* ------------------------------------------------------------------------

\* options.drop_tables of the two subsetting attempts
DropTablesFirst == {"FFTM", "VDMX", "hdmx"}
DropTablesRetry == {}

\* int(multiprocessing.cpu_count() / 4)
NumCores(cpu) == cpu \div 4

\* ------------------------------------------------------------------------
\* State
\* ------------------------------------------------------------------------

VARIABLES
  SUBSET_TABLE,   \* font_subset.SUBSET
  cpu_count,      \* multiprocessing.cpu_count()
  font,           \* the font file: [exists, cmap]
  meta_files,     \* files under METADATA_DIR: path -> content
  cache_files,    \* files under CACHE_DIR: path -> content
  pc,             \* create_subset: "idle", "plan", "build", "meta", "returned", "raised"
  family,         \* font_family of the running pass
  force_rebuild,  \* argument of the running pass
  tasks,          \* the task list (sequence of task dicts)
  skipped_count,
  num_cores,
  status,         \* per subset name: Pending, Skipped, Queued, Building, Built, EmptySkipped, Failed
  job,            \* per dispatched subset name: the job's position and locals
  future,         \* per dispatched subset name: the future's result
  report,         \* per subset name: the outcomes the orchestrator printed for it
  plan_i,         \* index of the planning loop
  meta_i,         \* index of the metadata loop
  error,          \* exception with which the pass ended, "" if none
  passes,         \* number of passes started
  meta0,          \* meta_files when the pass started
  cache0,         \* cache_files when the pass started
  settled,        \* a pass without force_rebuild has returned
  meta_cache,     \* FontService.meta_cache: family -> list of metadata dicts
  css_memo,       \* lru_cache of _generate_css: <<font_families, display>> -> text
  response,       \* the last response of handle_css, with the arguments it was computed for
                  \* the families whose directory was read for it and the number
                  \* of passes started before it
  requests,       \* number of requests served (0: init_app has not finished)
  parse_arg,      \* range_str of a call of parse_unicode_range
  parse_result    \* what that call returned, NotCalled before it

passVars == <<pc, family, force_rebuild, tasks, skipped_count, num_cores, status, job,
              future, report, plan_i, meta_i, error, passes, meta0, cache0, settled>>
parseVars == <<parse_arg, parse_result>>
envVars  == <<SUBSET_TABLE, cpu_count, font, parseVars>>
fsVars   == <<meta_files, cache_files>>
cssVars  == <<meta_cache, css_memo, response, requests>>
vars     == <<envVars, fsVars, passVars, cssVars>>

Names == {SubsetName(i) : i \in 1..Len(SUBSET_TABLE)}

NoResponse == [status |-> 0, css |-> <<>>, memo_hit |-> FALSE, key |-> <<{}, "">>, reads |-> {}, after |-> 0]
NoFuture == [kind |-> "pending", text |-> ""]
NoJob    == [pc |-> "none", actual_set |-> {}, coverage |-> Float0, calls |-> <<>>, fault |-> ""]
NotCalled == [kind |-> "none", value |-> {}]

\* a fresh FontService and server module: no pass has run, no request was
\* served, the data directories are empty
Constructed ==
  /\ meta_files = <<>>
  /\ cache_files = <<>>
  /\ pc = "idle"
  /\ family = <<>>
  /\ force_rebuild = FALSE
  /\ tasks = <<>>
  /\ skipped_count = 0
  /\ num_cores = 0
  /\ status = <<>>
  /\ job = <<>>
  /\ future = <<>>
  /\ report = <<>>
  /\ plan_i = 0
  /\ meta_i = 0
  /\ error = ""
  /\ passes = 0
  /\ meta0 = <<>>
  /\ cache0 = <<>>
  /\ settled = FALSE
  /\ meta_cache = <<>>
  /\ css_memo = <<>>
  /\ response = NoResponse
  /\ requests = 0

Init ==
  /\ SUBSET_TABLE \in SubsetTables
  /\ cpu_count \in CpuCounts
  /\ font \in FontStates
  /\ parse_arg = <<>>
  /\ parse_result = NotCalled
  /\ Constructed

\* ------------------------------------------------------------------------
\* FontService.create_subset: planning loop
\* ------------------------------------------------------------------------

Exists(files, path) == path \in DOMAIN files

WriteFile(files, path, content) == [q \in DOMAIN files \cup {path} |-> IF q = path THEN content ELSE files[q]]

Task(i) ==
  [subset          |-> SUBSET_TABLE[i],
   subset_name     |-> SubsetName(i),
   woff2_file_name |-> get_subset_cache_key(family, SubsetName(i))]

\* create_subset is left (return or exception): its locals are gone
DropLocals ==
  /\ tasks' = <<>>
  /\ skipped_count' = 0
  /\ status' = <<>>
  /\ job' = <<>>
  /\ future' = <<>>
  /\ report' = <<>>
  /\ plan_i' = 0
  /\ meta_i' = 0
  /\ meta0' = <<>>
  /\ cache0' = <<>>

\* create_subset is entered: font_family is derived, every subset is Pending
EnterPass(font_file_name, force) ==
  /\ pc \in {"idle", "returned", "raised"}
  /\ passes < MaxPasses
  /\ passes' = passes + 1
  /\ family' = FontFamilyOf(font_file_name)
  /\ force_rebuild' = force
  /\ tasks' = <<>>
  /\ skipped_count' = 0
  /\ num_cores' = 0
  /\ status' = [n \in Names |-> "Pending"]
  /\ job' = [n \in Names |-> NoJob]
  /\ future' = [n \in Names |-> NoFuture]
  /\ report' = [n \in Names |-> <<>>]
  /\ plan_i' = 1
  /\ meta_i' = 0
  /\ error' = ""
  /\ meta0' = meta_files
  /\ cache0' = cache_files
  /\ pc' = "plan"
  /\ UNCHANGED <<envVars, fsVars, settled, cssVars>>

\* init_app (and font_service's main block) call create_subset one font after
\* the other before the routes are served
StartPass(font_file_name, force) == requests = 0 /\ EnterPass(font_file_name, force)

\* create_subset is called again in a process that has served requests
Rebuild(font_file_name, force) == requests > 0 /\ EnterPass(font_file_name, force)

\* variants of the decision: the flag read the wrong way round / not read
SkipDecision_Inverted(meta_exists, force) == meta_exists /\ force
SkipDecision_NoForce(meta_exists, force) == meta_exists

\* the skip/force decision for one subset
SkipDecision(meta_exists, force) == meta_exists /\ ~force

\* one iteration of the planning loop
PlanStep ==
  /\ pc = "plan"
  /\ plan_i <= Len(SUBSET_TABLE)
  /\ LET t    == Task(plan_i)
         path == MetaPath(family, t.woff2_file_name)
     IN  IF SkipDecision(Exists(meta_files, path), force_rebuild)
         THEN /\ skipped_count' = skipped_count + 1
              /\ status' = [status EXCEPT ![t.subset_name] = "Skipped"]
              /\ tasks' = tasks
         ELSE /\ tasks' = Append(tasks, t)
              /\ status' = [status EXCEPT ![t.subset_name] = "Queued"]
              /\ skipped_count' = skipped_count
  /\ plan_i' = plan_i + 1
  /\ UNCHANGED <<envVars, fsVars, pc, family, force_rebuild, num_cores, job, future, report,
                 meta_i, error, passes, meta0, cache0, settled, cssVars>>

\* the planning loop ends: the pool is sized; with tasks the pool is created
\* (ProcessPoolExecutor raises ValueError for max_workers <= 0) and every
\* task submitted, without tasks the pass goes on to the metadata phase
OpenPool ==
  /\ pc = "plan"
  /\ plan_i > Len(SUBSET_TABLE)
  /\ num_cores' = NumCores(cpu_count)
  /\ IF Len(tasks) > 0
     THEN IF NumCores(cpu_count) <= 0
          THEN /\ pc' = "raised"
               /\ error' = "ValueError"
               /\ DropLocals
          ELSE /\ pc' = "build"
               /\ job' = [n \in Names |->
                            IF \E k \in 1..Len(tasks) : tasks[k].subset_name = n
                            THEN [NoJob EXCEPT !.pc = "submitted"] ELSE NoJob]
               /\ UNCHANGED <<error, meta_i, tasks, skipped_count, status, future, report,
                              plan_i, meta0, cache0>>
     ELSE /\ pc' = "meta"
          /\ meta_i' = 1
          /\ UNCHANGED <<job, error, tasks, skipped_count, status, future, report, plan_i,
                         meta0, cache0>>
  /\ UNCHANGED <<envVars, fsVars, family, force_rebuild, passes, settled, cssVars>>

\* ------------------------------------------------------------------------
\* FontService._process_single_subset, run by the pool's workers
\* ------------------------------------------------------------------------

TaskOf(n) == tasks[CHOOSE k \in 1..Len(tasks) : tasks[k].subset_name = n]

TaskIndex(n) == CHOOSE k \in 1..Len(tasks) : tasks[k].subset_name = n

RunningPcs == {"parse", "subset1", "subset2", "save"}

Running == {n \in Names : job[n].pc \in RunningPcs}

\* the job returns text / raises: the future completes
Finish(n, kind, text, st, j) ==
  /\ future' = [future EXCEPT ![n] = [kind |-> kind, text |-> text]]
  /\ status' = [status EXCEPT ![n] = st]
  /\ job' = [job EXCEPT ![n] = [j EXCEPT !.pc = "finished"]]

jobFrame == <<envVars, pc, family, force_rebuild, tasks, skipped_count, num_cores, report,
              plan_i, meta_i, error, passes, meta0, cache0, settled, cssVars>>

\* a free worker takes the next submitted task of the queue
JobStart(n) ==
  /\ pc = "build"
  /\ job[n].pc = "submitted"
  /\ Cardinality(Running) < num_cores
  /\ \A m \in Names : job[m].pc = "submitted" => TaskIndex(n) <= TaskIndex(m)
  /\ job' = [job EXCEPT ![n].pc = "parse"]
  /\ status' = [status EXCEPT ![n] = "Building"]
  /\ UNCHANGED <<jobFrame, fsVars, future>>

\* variant: the check of the intersection is missing
EmptyIntersection_Missing(actual_set) == FALSE

\* "if not actual_set": the job returns without calling the engine
EmptyIntersection(actual_set) == actual_set = {}

\* requested / supported / actual sets and the two early returns
JobParse(n) ==
  /\ pc = "build"
  /\ job[n].pc = "parse"
  /\ \/ /\ parse_unicode_range(TaskOf(n).subset) = {}
        /\ Finish(n, "returned", "skip_empty", "EmptySkipped", job[n])
     \/ /\ parse_unicode_range(TaskOf(n).subset) # {}
        /\ ~font.exists
        /\ Finish(n, "raised", "font", "Failed", [job[n] EXCEPT !.fault = "font"])
     \/ /\ parse_unicode_range(TaskOf(n).subset) # {}
        /\ font.exists
        /\ LET requested_set == parse_unicode_range(TaskOf(n).subset)
               actual_set    == requested_set \cap font.cmap
               coverage      == FloatDiv(Cardinality(actual_set), Cardinality(requested_set))
               j             == [job[n] EXCEPT !.actual_set = actual_set, !.coverage = coverage]
           IN  IF EmptyIntersection(actual_set)
               THEN Finish(n, "returned", "skip_unsupported", "EmptySkipped", j)
               ELSE /\ job' = [job EXCEPT ![n] = [j EXCEPT !.pc = "subset1"]]
                    /\ UNCHANGED <<future, status>>
  /\ UNCHANGED <<jobFrame, fsVars>>

\* variant: every failed call is followed by another one, up to three calls
Retries_Twice(calls) == Len(calls) <= 2 /\ ~calls[Len(calls)].ok

\* the engine is called once more after a failed call
Retries(calls) == Len(calls) = 1 /\ ~calls[1].ok

\* the options of the next engine call
NextDropTables(calls) == IF Len(calls) = 0 THEN DropTablesFirst ELSE DropTablesRetry

\* the font is opened and the engine called with the first option set
JobSubset1(n) ==
  /\ pc = "build"
  /\ job[n].pc = "subset1"
  /\ \E opened \in BOOLEAN, ok \in BOOLEAN :
       IF ~opened
       THEN Finish(n, "returned", "failed", "Failed", [job[n] EXCEPT !.fault = "open"])
       ELSE LET j == [job[n] EXCEPT !.calls = Append(@, [drop_tables |-> NextDropTables(job[n].calls),
                                                               unicodes |-> job[n].actual_set,
                                                               ok |-> ok])]
            IN  /\ job' = [job EXCEPT ![n] = [j EXCEPT !.pc = IF Retries(j.calls) THEN "subset2" ELSE "save"]]
                /\ UNCHANGED <<future, status>>
  /\ UNCHANGED <<jobFrame, fsVars>>

\* the except branch: the engine is called with the relaxed option set; a
\* second failure reaches the outer except and the job returns its error text
JobSubset2(n) ==
  /\ pc = "build"
  /\ job[n].pc = "subset2"
  /\ \E ok \in BOOLEAN :
       LET j == [job[n] EXCEPT !.calls = Append(@, [drop_tables |-> NextDropTables(job[n].calls),
                                                          unicodes |-> job[n].actual_set,
                                                          ok |-> ok])]
       IN  IF ok
           THEN /\ job' = [job EXCEPT ![n] = [j EXCEPT !.pc = "save"]]
                /\ UNCHANGED <<future, status>>
           ELSE IF Retries(j.calls)
           THEN /\ job' = [job EXCEPT ![n] = j]
                /\ UNCHANGED <<future, status>>
           ELSE Finish(n, "returned", "failed", "Failed", [j EXCEPT !.fault = "engine"])
  /\ UNCHANGED <<jobFrame, fsVars>>

\* font.save(cached_font_file): the file is written whole, or the save raises
\* and leaves the path as it was or with a truncated file
JobSave(n) ==
  /\ pc = "build"
  /\ job[n].pc = "save"
  /\ LET path == CachePath(TaskOf(n).woff2_file_name)
     IN  \E outcome \in {"saved", "raised", "truncated"} :
           /\ cache_files' =
                CASE outcome = "saved" ->
                       WriteFile(cache_files, path, [complete |-> TRUE, unicodes |-> job[n].actual_set])
                  [] outcome = "truncated" ->
                       WriteFile(cache_files, path, [complete |-> FALSE, unicodes |-> {}])
                  [] OTHER -> cache_files
           /\ IF outcome = "saved"
              THEN Finish(n, "returned", "generated", "Built", job[n])
              ELSE Finish(n, "returned", "failed", "Failed", [job[n] EXCEPT !.fault = "save"])
  /\ UNCHANGED <<jobFrame, meta_files>>

\* ------------------------------------------------------------------------
\* create_subset: as_completed loop and end of the with block
\* ------------------------------------------------------------------------

\* the outcome the orchestrator prints for a completed future
Outcome(f) ==
  CASE f.kind = "raised" -> "Failed"
    [] f.text = "generated" -> "Built"
    [] f.text \in {"skip_empty", "skip_unsupported"} -> "EmptySkipped"
    [] OTHER -> "Failed"

Collected == {n \in Names : Len(report[n]) > 0}

\* variant: future.result() is not guarded, the exception of a job ends the pass
Collect_Unguarded(n) ==
  /\ pc = "build"
  /\ future[n].kind # "pending"
  /\ n \notin Collected
  /\ IF future[n].kind = "raised"
     THEN /\ pc' = "raised"
          /\ error' = "JobError"
          /\ DropLocals
     ELSE /\ report' = [report EXCEPT ![n] = Append(@, Outcome(future[n]))]
          /\ UNCHANGED <<pc, error, tasks, skipped_count, status, job, future, plan_i, meta_i,
                         meta0, cache0>>
  /\ UNCHANGED <<envVars, fsVars, family, force_rebuild, num_cores, passes, settled, cssVars>>

\* as_completed yields a completed future; its result or exception is printed
Collect(n) ==
  /\ pc = "build"
  /\ future[n].kind # "pending"
  /\ n \notin Collected
  /\ report' = [report EXCEPT ![n] = Append(@, Outcome(future[n]))]
  /\ UNCHANGED <<envVars, fsVars, pc, family, force_rebuild, tasks, skipped_count, num_cores,
                 status, job, future, plan_i, meta_i, error, passes, meta0, cache0, settled, cssVars>>

Dispatched == {tasks[k].subset_name : k \in 1..Len(tasks)}

\* variant: the with block is left when the first future has been collected
EndBuild_FirstDone ==
  /\ pc = "build"
  /\ Collected # {}
  /\ pc' = "meta"
  /\ meta_i' = 1
  /\ UNCHANGED <<envVars, fsVars, family, force_rebuild, tasks, skipped_count, num_cores,
                 status, job, future, report, plan_i, error, passes, meta0, cache0, settled, cssVars>>

\* as_completed is exhausted and the executor shut down
EndBuild ==
  /\ pc = "build"
  /\ Collected = Dispatched
  /\ pc' = "meta"
  /\ meta_i' = 1
  /\ UNCHANGED <<envVars, fsVars, family, force_rebuild, tasks, skipped_count, num_cores,
                 status, job, future, report, plan_i, error, passes, meta0, cache0, settled, cssVars>>

\* ------------------------------------------------------------------------
\* create_subset: metadata phase
\* ------------------------------------------------------------------------

PySet(S) == [type |-> "set", val |-> S]
PyFloat0 == [type |-> "float", val |-> {}]

\* len(v) is defined for a set; for a float it raises TypeError
HasLen(v) == v.type = "set"
PyLen(v)  == Cardinality(v.val)

\* variant: records are written only on a rebuild
NeedsMeta_OnlyForce(meta_exists, force) == force

\* the metadata file is (re)written
NeedsMeta(meta_exists, force) == ~meta_exists \/ force

\* actual_set and coverage of the metadata phase
MetaActualSet(requested_set, cmap) ==
  IF requested_set # {} THEN PySet(requested_set \cap cmap) ELSE PyFloat0

\* variant: the quotient is taken over the supported set
MetaCoverage_OverSupported(requested_set, cmap) ==
  IF requested_set # {} /\ cmap # {}
  THEN FloatDiv(Cardinality(requested_set \cap cmap), Cardinality(cmap))
  ELSE Float0

MetaCoverage(requested_set, cmap) ==
  IF requested_set # {}
  THEN FloatDiv(Cardinality(requested_set \cap cmap), Cardinality(requested_set))
  ELSE Float0

MetaData(i, actual_set, coverage) ==
  [font_family     |-> family,
   subset_range    |-> SUBSET_TABLE[i],
   woff2_file_name |-> Task(i).woff2_file_name \o ExtWoff2,
   subset          |-> SubsetName(i),
   coverage        |-> coverage,
   supported_chars |-> PyLen(actual_set)]

\* one iteration of the metadata loop
MetaStep ==
  /\ pc = "meta"
  /\ meta_i <= Len(SUBSET_TABLE)
  /\ LET path          == MetaPath(family, Task(meta_i).woff2_file_name)
         requested_set == parse_unicode_range(SUBSET_TABLE[meta_i])
         actual_set    == MetaActualSet(requested_set, font.cmap)
         coverage      == MetaCoverage(requested_set, font.cmap)
         keep          == /\ UNCHANGED <<pc, error, tasks, skipped_count, status, job, future,
                                         report, plan_i, meta0, cache0>>
                          /\ meta_i' = meta_i + 1
     IN  IF NeedsMeta(Exists(meta_files, path), force_rebuild)
         THEN IF requested_set # {} /\ ~font.exists
              THEN /\ pc' = "raised"
                   /\ error' = "FontError"
                   /\ DropLocals
                   /\ UNCHANGED meta_files
              ELSE IF ~HasLen(actual_set)
              THEN /\ pc' = "raised"
                   /\ error' = "TypeError"
                   /\ DropLocals
                   /\ UNCHANGED meta_files
              ELSE /\ meta_files' = WriteFile(meta_files, path,
                                              json_dumps(MetaData(meta_i, actual_set, coverage)))
                   /\ keep
         ELSE /\ keep
              /\ UNCHANGED meta_files
  /\ UNCHANGED <<envVars, cache_files, family, force_rebuild, num_cores, passes, settled, cssVars>>

\* create_subset returns
ReturnPass ==
  /\ pc = "meta"
  /\ meta_i > Len(SUBSET_TABLE)
  /\ pc' = "returned"
  /\ settled' = (settled \/ ~force_rebuild)
  /\ DropLocals
  /\ UNCHANGED <<envVars, fsVars, family, force_rebuild, num_cores, error, passes, cssVars>>

\* ------------------------------------------------------------------------
\* Environment: the font file is replaced or removed between passes
\* ------------------------------------------------------------------------

ChangeFont(f) ==
  /\ pc \in {"idle", "returned", "raised"}
  /\ f # font
  /\ font' = f
  /\ UNCHANGED <<SUBSET_TABLE, cpu_count, parseVars, fsVars, passVars, cssVars>>

\* ------------------------------------------------------------------------
\* FontService.get_meta_data and utils.find_files_by_extension
\* ------------------------------------------------------------------------

\* Path.suffix.lower().strip("."): the text after the last dot of the name
SuffixOf(name) ==
  LET dots == {i \in 2..Len(name) : name[i] = "."}
  IN  IF dots = {} THEN <<>>
      ELSE SubSeq(name, (CHOOSE i \in dots : \A j \in dots : j <= i) + 1, Len(name))

\* server.py reads ./config.json when it is imported: a JSON object with the
\* five settings, somewhere under the root of the file system
ConfigPath == <<<<".">>, <<"c", "o", "n", "f", "i", "g", ".", "j", "s", "o", "n">>>>

ConfigJson ==
  json_dumps([ADDRESS |-> "setting", BASE_URL |-> "setting", CACHE_MAX_AGE |-> "setting",
              FONT_MAX_AGE |-> "setting", LOG_RETENTION_DAYS |-> "setting"])

\* METADATA_DIR / f"{font_family}/": for the empty family the joined segment
\* is "/", and joining an absolute segment to a path gives that segment, the
\* root of the file system
WalksRoot(font_family) == font_family = <<>>

\* the files find_files_by_extension yields under METADATA_DIR / font_family
find_files_by_extension(font_family, extensions) ==
  {path \in DOMAIN meta_files \cup (IF WalksRoot(font_family) THEN {ConfigPath} ELSE {}) :
     (WalksRoot(font_family) \/ path[1] = font_family) /\ SuffixOf(path[2]) \in extensions}

\* meta_file.read_text()
ReadText(path) == IF path = ConfigPath THEN ConfigJson ELSE meta_files[path]

json_loads(content) == content.doc

\* the orders in which the directory walk may yield a set of paths
Listings(paths) ==
  {l \in [1..Cardinality(paths) -> paths] : \A a, b \in 1..Cardinality(paths) : l[a] = l[b] => a = b}

\* one order of the walk for each family to be read
Walks(families) ==
  {w \in [families -> UNION {Listings(find_files_by_extension(f, {<<"j", "s", "o", "n">>})) : f \in families}] :
     \A f \in families : w[f] \in Listings(find_files_by_extension(f, {<<"j", "s", "o", "n">>}))}

\* variant: a file that cannot be parsed is taken as it is
Unreadable_Ignored(font_family) == FALSE

\* json.loads raises for a file of the family: the list comprehension of
\* get_meta_data raises before meta_cache is assigned
Unreadable(font_family) ==
  \E path \in find_files_by_extension(font_family, {<<"j", "s", "o", "n">>}) : ~ReadText(path).valid

\* the list get_meta_data stores on a cache miss, for one order of the walk
MetaList(listing) == [k \in 1..Len(listing) |-> json_loads(ReadText(listing[k]))]

\* variant: the directory is read on every call
CacheMisses_Always(names, cache) == names

\* "if font_family not in self.meta_cache.keys()": the families read from disk
CacheMisses(names, cache) == names \ DOMAIN cache

\* ------------------------------------------------------------------------
\* Environment: a metadata file is damaged (write_text is not atomic, the
\* directory is shared with other processes)
\* ------------------------------------------------------------------------

Corrupt == [valid |-> FALSE, doc |-> <<>>]

CorruptMeta(path) ==
  /\ pc \in {"idle", "returned", "raised"}
  /\ path \in DOMAIN meta_files
  /\ meta_files[path].valid
  /\ meta_files' = [meta_files EXCEPT ![path] = Corrupt]
  /\ UNCHANGED <<envVars, cache_files, passVars, cssVars>>

\* ------------------------------------------------------------------------
\* server._generate_css
\* ------------------------------------------------------------------------

Italic  == <<"i", "t", "a", "l", "i", "c">>
W400    == <<"4", "0", "0">>
UrlRoot == <<"/", "s", "/">>

FontNameOf(font_spec) == Split(font_spec, <<":">>)[1]

VariantsOf(font_spec) ==
  LET parts == Split(font_spec, <<":">>)
  IN  IF Len(parts) > 1 THEN Split(parts[2], <<",">>) ELSE <<W400>>

\* style and weight after the if/else of one variant; style is the loop's
\* running variable
StyleAfter(style, variant) == IF Contains(variant, Italic) THEN "italic" ELSE style

WeightOf(variant) ==
  IF Contains(variant, Italic)
  THEN (IF Replace(variant, Italic, <<>>) = <<>> THEN W400 ELSE Replace(variant, Italic, <<>>))
  ELSE variant

\* meta_data.get("coverage", 1.0)
Float1 == [num |-> 1, den |-> 1]

CoverageOf(meta_data) == IF "coverage" \in DOMAIN meta_data THEN meta_data.coverage ELSE Float1

\* variant: only a negative coverage is skipped
SkipsRecord_Negative(coverage) == coverage.num < 0

\* "if coverage <= 0: continue"
SkipsRecord(coverage) == coverage.num <= 0

\* the keys the rule text reads with meta_data[...]
RuleKeys == {"woff2_file_name", "subset_range", "subset"}

\* building the rules of a list raises KeyError: a dict that is not skipped
\* lacks a key
RuleRaises(meta_data_list) ==
  \E r \in 1..Len(meta_data_list) :
     ~SkipsRecord(CoverageOf(meta_data_list[r])) /\ ~(RuleKeys \subseteq DOMAIN meta_data_list[r])

FontFaceRule(meta_data, font_name, style, weight, display) ==
  [comment       |-> meta_data.subset,
   font_family   |-> font_name,
   font_style    |-> style,
   font_weight   |-> weight,
   src_url       |-> UrlRoot \o meta_data.woff2_file_name,
   unicode_range |-> meta_data.subset_range,
   font_display  |-> display]

RECURSIVE RecordRules(_, _, _, _, _)
\* the inner loop over meta_data_list
RecordRules(meta_data_list, font_name, style, weight, display) ==
  IF Len(meta_data_list) = 0 THEN <<>>
  ELSE (IF SkipsRecord(CoverageOf(meta_data_list[1])) THEN <<>>
        ELSE <<FontFaceRule(meta_data_list[1], font_name, style, weight, display)>>)
       \o RecordRules(Tail(meta_data_list), font_name, style, weight, display)

RECURSIVE VariantRules(_, _, _, _, _)
\* the loop over variants, style carried from one iteration to the next
VariantRules(variants, style, font_name, display, cache) ==
  IF Len(variants) = 0 THEN <<>>
  ELSE LET st == StyleAfter(style, variants[1])
       IN  RecordRules(cache[font_name], font_name, st, WeightOf(variants[1]), display)
           \o VariantRules(Tail(variants), st, font_name, display, cache)

RECURSIVE SpecRules(_, _, _)
\* the outer loop over font_families, in the order the frozenset is iterated
SpecRules(specs, display, cache) ==
  IF Len(specs) = 0 THEN <<>>
  ELSE VariantRules(VariantsOf(specs[1]), "normal", FontNameOf(specs[1]), display, cache)
       \o SpecRules(Tail(specs), display, cache)

\* ------------------------------------------------------------------------
\* server.handle_css
\* ------------------------------------------------------------------------

QueryGet(query, name, default) == IF name \in DOMAIN query THEN query[name] ELSE default

SeqToSet(q) == {q[k] : k \in 1..Len(q)}

\* frozenset(sorted(family.replace("+", " ").split("|")))
FontFamiliesOf(query) ==
  SeqToSet(Split(Replace(QueryGet(query, "family", <<>>), <<"+">>, <<" ">>), <<"|">>))

DisplayOf(query) == QueryGet(query, "display", "swap")

\* lru_cache() keeps the most recently used keys up to its default maxsize:
\* requests with that many other keys (families or display values not listed
\* in Queries) push every entry held here out of the memo
MemoEvicted ==
  /\ pc \in {"idle", "returned", "raised"}
  /\ requests > 0
  /\ css_memo # <<>>
  /\ css_memo' = <<>>
  /\ UNCHANGED <<envVars, fsVars, passVars, meta_cache, response, requests>>

\* variant: the result of a call is not kept
Memoize_Never(memo, key, css) == memo

\* lru_cache stores the value a call returned under its arguments
Memoize(memo, key, css) == WriteFile(memo, key, css)

\* _generate_css for one iteration order of font_families: get_meta_data is
\* called for the family of every spec in turn, a family missing from
\* meta_cache is read from its directory and stored; the first exception
\* (json.loads in get_meta_data, KeyError in the rule text) ends the call
GenerateCss(order, display, walk, others_ok) ==
  LET loadable(f) == f \in DOMAIN walk => (~Unreadable(f) /\ (WalksRoot(f) => others_ok))
      listOf(f)   == IF f \in DOMAIN walk THEN MetaList(walk[f]) ELSE meta_cache[f]
      failing     == {k \in 1..Len(order) :
                        \/ ~loadable(FontNameOf(order[k]))
                        \/ RuleRaises(listOf(FontNameOf(order[k])))}
      last        == IF failing = {} THEN Len(order) ELSE Min(failing)
      stored      == {f \in DOMAIN walk : loadable(f) /\ \E k \in 1..last : FontNameOf(order[k]) = f}
      cache       == [f \in DOMAIN meta_cache \cup stored |-> listOf(f)]
  IN  [raised |-> failing # {},
       cache  |-> cache,
       reads  |-> {f \in DOMAIN walk : \E k \in 1..last : FontNameOf(order[k]) = f},
       css    |-> IF failing = {} THEN SpecRules(order, display, cache) ELSE <<>>]

\* handle_css: the query is read, the 400 check made, _generate_css called
\* through its memo; an exception becomes a 500 response and is not memoized
HandleCss(query) ==
  /\ pc \in {"idle", "returned", "raised"}
  /\ requests < MaxRequests
  /\ requests' = requests + 1
  /\ LET font_families == FontFamiliesOf(query)
         display       == DisplayOf(query)
         key           == <<font_families, display>>
     IN  IF font_families = {}
         THEN /\ response' = [status |-> 400, css |-> <<>>, memo_hit |-> FALSE, key |-> key, reads |-> {}, after |-> passes]
              /\ UNCHANGED <<meta_cache, css_memo>>
         ELSE IF key \in DOMAIN css_memo
         THEN /\ response' = [status |-> 200, css |-> css_memo[key], memo_hit |-> TRUE, key |-> key, reads |-> {}, after |-> passes]
              /\ UNCHANGED <<meta_cache, css_memo>>
         ELSE \E order \in Listings(font_families),
                 walk \in Walks(CacheMisses({FontNameOf(sp) : sp \in font_families}, meta_cache)),
                 others_ok \in (IF \E sp \in font_families : WalksRoot(FontNameOf(sp)) THEN BOOLEAN ELSE {TRUE}) :
                \E run \in {GenerateCss(order, display, walk, others_ok)} :
                   /\ meta_cache' = run.cache
                   /\ IF run.raised
                      THEN /\ css_memo' = css_memo
                           /\ response' = [status |-> 500, css |-> <<>>, memo_hit |-> FALSE, key |-> key,
                                            reads |-> run.reads, after |-> passes]
                      ELSE /\ css_memo' = Memoize(css_memo, key, run.css)
                           /\ response' = [status |-> 200, css |-> run.css, memo_hit |-> FALSE, key |-> key,
                                            reads |-> run.reads, after |-> passes]
  /\ UNCHANGED <<envVars, fsVars, passVars>>

JobStep ==
  \E n \in Names : JobStart(n) \/ JobParse(n) \/ JobSubset1(n) \/ JobSubset2(n) \/ JobSave(n)

Next ==
  \/ \E f \in FontFileNames, force \in BOOLEAN : StartPass(f, force)
  \/ PlanStep
  \/ OpenPool
  \/ JobStep
  \/ \E n \in Names : Collect(n)
  \/ EndBuild
  \/ MetaStep
  \/ ReturnPass
  \/ \E f \in FontStates : ChangeFont(f)
  \/ \E q \in Queries : HandleCss(q)

Spec == Init /\ [][Next]_vars

\* ------------------------------------------------------------------------
\* A process that goes on serving while create_subset is called again and
\* the files under METADATA_DIR change
\* ------------------------------------------------------------------------

InitServe ==
  /\ SUBSET_TABLE = ServeTable
  /\ cpu_count = ServeCpus
  /\ font = ServeFont
  /\ parse_arg = <<>>
  /\ parse_result = NotCalled
  /\ Constructed

NextServe ==
  \/ \E f \in FontFileNames, force \in BOOLEAN : StartPass(f, force)
  \/ \E f \in FontFileNames, force \in BOOLEAN : Rebuild(f, force)
  \/ PlanStep
  \/ OpenPool
  \/ JobStep
  \/ \E n \in Names : Collect(n)
  \/ EndBuild
  \/ MetaStep
  \/ ReturnPass
  \/ \E path \in DOMAIN meta_files : CorruptMeta(path)
  \/ MemoEvicted
  \/ \E q \in ServeQueries : HandleCss(q)

SpecServe == InitServe /\ [][NextServe]_vars

\* ------------------------------------------------------------------------
\* parse_unicode_range called on a range string
\* ------------------------------------------------------------------------

InitParse ==
  /\ SUBSET_TABLE = <<>>
  /\ cpu_count = ServeCpus
  /\ font = [exists |-> FALSE, cmap |-> {}]
  /\ parse_arg \in RangeStrings
  /\ parse_result = NotCalled
  /\ Constructed

ParseCall ==
  /\ parse_result = NotCalled
  /\ parse_result' = [kind |-> "returned", value |-> parse_unicode_range(parse_arg)]
  /\ UNCHANGED <<SUBSET_TABLE, cpu_count, font, parse_arg, fsVars, passVars, cssVars>>

NextParse == ParseCall

SpecParse == InitParse /\ [][NextParse]_vars
\* ------------------------------------------------------------------------
\* Properties
\* ------------------------------------------------------------------------

InPass == pc \in {"plan", "build", "meta"}

\* both loops of the pass are through, create_subset is about to return
PassEnd == pc = "meta" /\ meta_i > Len(SUBSET_TABLE)

Idx(n) == CHOOSE i \in 1..Len(SUBSET_TABLE) : SubsetName(i) = n

MetaPathOf(n) == MetaPath(family, get_subset_cache_key(family, n))

CachePathOf(n) == CachePath(get_subset_cache_key(family, n))

Requested(n) == parse_unicode_range(SUBSET_TABLE[Idx(n)])

\* the file at a path is the same (absent or equal) in two file systems
SameAt(fs1, fs2, path) ==
  /\ (path \in DOMAIN fs1) = (path \in DOMAIN fs2)
  /\ path \in DOMAIN fs1 => fs1[path] = fs2[path]

EngineCalls == {n \in DOMAIN job : Len(job[n].calls) > 0}

\* C1: once a pass without force_rebuild has returned, a further pass without
\* force_rebuild queues no task, opens no pool, calls the engine for no
\* subset and leaves every metadata file as it was when the pass started
C1_Idempotent ==
  (settled /\ InPass /\ ~force_rebuild) =>
     /\ tasks = <<>>
     /\ pc # "build"
     /\ EngineCalls = {}
     /\ \A n \in Names : status[n] \in {"Pending", "Skipped"}
     /\ meta_files = meta0

\* a second non-forced pass has run through both loops and skipped every subset
C1_Witness ==
  /\ settled /\ PassEnd /\ ~force_rebuild
  /\ skipped_count = Len(SUBSET_TABLE)
  /\ Len(SUBSET_TABLE) >= 2

Terminal == {"Built", "EmptySkipped", "Failed"}

\* the outcome a finished job has by its own steps alone
OwnOutcome(n) ==
  IF job[n].fault # "" THEN "Failed"
  ELSE IF job[n].actual_set = {} THEN "EmptySkipped"
  ELSE "Built"

\* some step of the build phase can be taken: a running job steps, a free
\* worker takes a submitted task, a completed future is collected, or the
\* join is complete
CanProgress ==
  \/ \E n \in Names : job[n].pc \in RunningPcs
  \/ \E n \in Names : job[n].pc = "submitted" /\ Cardinality(Running) < num_cores
  \/ \E n \in Dispatched : future[n].kind # "pending" /\ n \notin Collected
  \/ Collected = Dispatched

C2_Outcomes ==
  /\ \A n \in DOMAIN report :
       /\ Len(report[n]) <= 1
       /\ Len(report[n]) = 1 =>
            /\ n \in Dispatched
            /\ job[n].pc = "finished"
            /\ report[n][1] = status[n]
  /\ \A n \in DOMAIN job :
       job[n].pc = "finished" => (status[n] \in Terminal /\ status[n] = OwnOutcome(n))
  /\ pc = "meta" => \A n \in Dispatched : Len(report[n]) = 1
  /\ pc = "build" => CanProgress

\* C2: every dispatched job gets exactly one terminal outcome, printed under
\* its own subset name, whatever the order of completion; the outcome is the
\* one the job's own steps give, the build phase can always go on and it is
\* left only by joining all jobs, never because a job failed
C2_FailureIsolation ==
  [](C2_Outcomes) /\ [][pc = "build" => pc' \in {"build", "meta"}]_vars

\* the join of a pass in which one job raised, one returned a failure and a
\* sibling was built
C2_Witness ==
  /\ pc = "meta"
  /\ \E n, m \in Dispatched :
       /\ status[n] = "Failed" /\ job[n].fault \in {"engine", "open"}
       /\ status[m] = "Built"
       /\ report[n] = <<"Failed">> /\ report[m] = <<"Built">>
       /\ Idx(n) < Idx(m)

\* C3: a subset leaves Pending as Skipped exactly when its metadata file exists
\* at the start of the pass and force_rebuild is false, otherwise as Queued;
\* with force_rebuild none is skipped; no job exists while a subset is still
\* Pending, and a Skipped subset is never queued, built or given a job
C3_SkipForce ==
  InPass =>
    /\ \A n \in Names :
         /\ status[n] = "Skipped" <=> (Idx(n) < plan_i /\ Exists(meta0, MetaPathOf(n)) /\ ~force_rebuild)
         /\ status[n] = "Pending" <=> Idx(n) >= plan_i
         /\ status[n] = "Skipped" => (n \notin Dispatched /\ job[n] = NoJob /\ future[n] = NoFuture)
         /\ status[n] \notin {"Pending", "Skipped"} => n \in Dispatched
    /\ (\E n \in Names : status[n] = "Pending") => \A m \in Names : job[m] = NoJob
    /\ skipped_count = Cardinality({n \in Names : status[n] = "Skipped"})

\* a pass that skipped one subset and built another
C3_Witness ==
  /\ pc = "meta" /\ ~force_rebuild
  /\ \E n, m \in Names : status[n] = "Skipped" /\ status[m] = "Built"

\* C4: a job calls the engine at most twice; the first call drops the three
\* tables, a second call happens only after the first failed and drops no
\* table; when the second call fails too the job ends Failed and the file at
\* its artifact path is as it was when the pass started
C4_RetryOnce ==
  \A n \in DOMAIN job :
    LET calls == job[n].calls
    IN  /\ Len(calls) <= 2
        /\ Len(calls) >= 1 => calls[1].drop_tables = DropTablesFirst
        /\ Len(calls) = 2 => (~calls[1].ok /\ calls[2].drop_tables = {})
        /\ (Len(calls) = 2 /\ ~calls[2].ok) =>
              /\ job[n].pc = "finished"
              /\ status[n] = "Failed"
              /\ SameAt(cache_files, cache0, CachePathOf(n))
        /\ (Len(calls) >= 1 /\ job[n].pc = "subset2") => ~calls[1].ok

\* a job whose two calls failed, next to one built by its second call
C4_Witness ==
  /\ pc = "meta"
  /\ \E n, m \in Dispatched :
       /\ Len(job[n].calls) = 2 /\ ~job[n].calls[2].ok /\ status[n] = "Failed"
       /\ Len(job[m].calls) = 2 /\ job[m].calls[2].ok /\ status[m] = "Built"

Doc(path) == meta_files[path].doc

\* C5: for a subset whose range spec parses to the empty set the job returns
\* without a fault, and the metadata phase, reaching that subset when its
\* record is to be written, raises nothing, writes the record with coverage 0
\* and supported_chars 0 and goes on to the next subset
C5_EmptyRequested ==
  /\ [](\A n \in DOMAIN job :
          (job[n].pc = "finished" /\ Requested(n) = {}) =>
             (future[n].kind = "returned" /\ status[n] = "EmptySkipped"))
  /\ [][(/\ pc = "meta"
         /\ meta_i <= Len(SUBSET_TABLE)
         /\ parse_unicode_range(SUBSET_TABLE[meta_i]) = {}
         /\ NeedsMeta(Exists(meta_files, MetaPathOf(SubsetName(meta_i))), force_rebuild))
        => (/\ pc' = "meta"
            /\ meta_i' = meta_i + 1
            /\ Exists(meta_files', MetaPathOf(SubsetName(meta_i)))
            /\ meta_files'[MetaPathOf(SubsetName(meta_i))].doc.coverage = Float0
            /\ meta_files'[MetaPathOf(SubsetName(meta_i))].doc.supported_chars = 0)]_vars

\* C6: when create_subset has tasks and opens the pool, the pool has at least
\* one worker and at most cpu_count workers
C6_PoolSize ==
  [][(pc = "plan" /\ plan_i > Len(SUBSET_TABLE) /\ Len(tasks) > 0)
     => (pc' = "build" /\ num_cores' >= 1 /\ num_cores' <= cpu_count)]_vars

\* C7: a job whose requested set is non-empty and has no codepoint in the
\* font's cmap ends EmptySkipped by returning (no exception), without any
\* engine call and with the file at its artifact path as it was when the pass
\* started; the metadata record the pass writes for it has coverage 0
C7_EmptySkipped ==
  InPass =>
    \A n \in Dispatched :
      (/\ job[n].pc = "finished"
       /\ font.exists
       /\ Requested(n) # {}
       /\ Requested(n) \cap font.cmap = {})
      => /\ status[n] = "EmptySkipped"
         /\ future[n] = [kind |-> "returned", text |-> "skip_unsupported"]
         /\ job[n].calls = <<>>
         /\ SameAt(cache_files, cache0, CachePathOf(n))
         /\ Len(report[n]) = 1 => report[n] = <<"EmptySkipped">>
         /\ (pc = "meta" /\ meta_i > Idx(n)) =>
               /\ Exists(meta_files, MetaPathOf(n))
               /\ Doc(MetaPathOf(n)).coverage = Float0
               /\ Doc(MetaPathOf(n)).supported_chars = 0

\* the end of a pass in which such a job ran and its record was written
C7_Witness ==
  /\ PassEnd
  /\ \E n \in Dispatched :
       /\ Requested(n) # {} /\ font.exists /\ Requested(n) \cap font.cmap = {}
       /\ status[n] = "EmptySkipped"
       /\ Doc(MetaPathOf(n)).coverage = Float0

\* coverage and count of subset i against the font file as it is now
FreshCoverage(i) ==
  LET req == parse_unicode_range(SUBSET_TABLE[i])
  IN  IF req = {} THEN Float0 ELSE FloatDiv(Cardinality(req \cap font.cmap), Cardinality(req))

FreshCount(i) == Cardinality(parse_unicode_range(SUBSET_TABLE[i]) \cap font.cmap)

Fresh(i) ==
  /\ Doc(MetaPathOf(SubsetName(i))).coverage = FreshCoverage(i)
  /\ Doc(MetaPathOf(SubsetName(i))).supported_chars = FreshCount(i)

\* C8 as stated: at the end of any pass, forced or not, every metadata record
\* of the family holds the coverage and count computed against the font file
\* of that pass
C8_FreshAfterAnyPass ==
  (PassEnd /\ font.exists) =>
     \A i \in 1..Len(SUBSET_TABLE) :
        Exists(meta_files, MetaPathOf(SubsetName(i))) => Fresh(i)

\* C8 amended: in the metadata phase every subset already passed whose record
\* was missing at the start of the pass, or any subset already passed when
\* force_rebuild is set, has a record with the coverage and count computed
\* against the font file of this pass; every other record is as it was when
\* the pass started
C8_FreshWhenWritten ==
  pc = "meta" =>
     \A i \in 1..Len(SUBSET_TABLE) :
        LET path == MetaPathOf(SubsetName(i))
        IN  IF i < meta_i /\ (force_rebuild \/ ~Exists(meta0, path))
            THEN Exists(meta_files, path) /\ font.exists /\ Fresh(i)
            ELSE SameAt(meta_files, meta0, path)

\* a forced pass after a change of the font file has replaced a record, and a
\* record the pass has not reached yet is still the old one
C8_Witness ==
  /\ pc = "meta" /\ force_rebuild
  /\ \E i, j \in 1..Len(SUBSET_TABLE) :
       /\ i < meta_i /\ j >= meta_i
       /\ Exists(meta0, MetaPathOf(SubsetName(i)))
       /\ meta0[MetaPathOf(SubsetName(i))] # meta_files[MetaPathOf(SubsetName(i))]
       /\ Exists(meta_files, MetaPathOf(SubsetName(j)))
       /\ ~Fresh(j)

RECURSIVE VariantCount(_, _)
\* number of variants the specs of a set name for one family
VariantCount(specs, font_name) ==
  IF specs = {} THEN 0
  ELSE LET sp == CHOOSE x \in specs : TRUE
       IN  (IF FontNameOf(sp) = font_name THEN Len(VariantsOf(sp)) ELSE 0)
           + VariantCount(specs \ {sp}, font_name)

\* the rule is the one of this record for this family and display
RuleOf(rule, meta_data, font_name, display) ==
  /\ rule.font_family = font_name
  /\ rule.comment = meta_data.subset
  /\ rule.unicode_range = meta_data.subset_range
  /\ rule.src_url = UrlRoot \o meta_data.woff2_file_name
  /\ rule.font_display = display

\* C9: in a stylesheet, for every family named by the request and every
\* metadata record get_meta_data holds for it, the number of rules carrying
\* the record's subset_range, the URL /s/<woff2_file_name> and the requested
\* display is the number of variants requested for the family when the
\* record's coverage is > 0 and zero when it is 0; there is no other rule
C9_RuleSelection ==
  response.status = 200 =>
    LET specs   == response.key[1]
        display == response.key[2]
        rules   == response.css
        names   == {FontNameOf(sp) : sp \in specs}
    IN  /\ \A f \in names : \A r \in 1..Len(meta_cache[f]) :
             Cardinality({k \in 1..Len(rules) : RuleOf(rules[k], meta_cache[f][r], f, display)})
               = (IF meta_cache[f][r].coverage.num > 0 THEN VariantCount(specs, f) ELSE 0)
        /\ \A k \in 1..Len(rules) : \E f \in names : \E r \in 1..Len(meta_cache[f]) :
             /\ RuleOf(rules[k], meta_cache[f][r], f, display)
             /\ meta_cache[f][r].coverage.num > 0

\* a computed stylesheet for two variants over a record with coverage 0 and
\* two records with coverage > 0
C9_Witness ==
  /\ response.status = 200 /\ ~response.memo_hit
  /\ \E sp \in response.key[1] :
       /\ Len(VariantsOf(sp)) = 2
       /\ \E r \in 1..Len(meta_cache[FontNameOf(sp)]) : meta_cache[FontNameOf(sp)][r].coverage.num = 0
       /\ Len(response.css) = 4

\* style of a variant taken by itself
OwnStyle(variant) == IF Contains(variant, Italic) THEN "italic" ELSE "normal"

RECURSIVE OwnVariantRules(_, _, _, _)
OwnVariantRules(variants, font_name, display, cache) ==
  IF Len(variants) = 0 THEN <<>>
  ELSE RecordRules(cache[font_name], font_name, OwnStyle(variants[1]), WeightOf(variants[1]), display)
       \o OwnVariantRules(Tail(variants), font_name, display, cache)

RECURSIVE OwnSpecRules(_, _, _)
OwnSpecRules(specs, display, cache) ==
  IF Len(specs) = 0 THEN <<>>
  ELSE OwnVariantRules(VariantsOf(specs[1]), FontNameOf(specs[1]), display, cache)
       \o OwnSpecRules(Tail(specs), display, cache)

\* C10: the rules of a stylesheet are, for every variant token at any
\* position, the rules of the records with style italic exactly when that
\* token contains the italic marker and normal otherwise, and weight the token
\* without the marker, 400 when nothing remains
C10_VariantStyle ==
  response.status = 200 =>
    \E order \in Listings(response.key[1]) :
       response.css = OwnSpecRules(order, response.key[2], meta_cache)

\* ------------------------------------------------------------------------
\* Properties of the serving process
\* ------------------------------------------------------------------------

JsonExt == {<<"j", "s", "o", "n">>}

\* font_families of a request that names no family
NoFamily == FontFamiliesOf(NoParameters)

\* C11: a request without a family parameter is answered with status 400;
\* no stylesheet is synthesized for it and get_meta_data is not called for
\* it (nothing is stored or memoized under the empty family)
C11_NoFamily400 ==
  /\ response.key[1] = NoFamily => (response.status = 400 /\ response.reads = {})
  /\ \A f \in DOMAIN meta_cache : ~WalksRoot(f)
  /\ \A key \in DOMAIN css_memo : key[1] # NoFamily

\* a step of handle_css
Served == requests' = requests + 1

\* C12: an entry of meta_cache, once stored, is never changed or removed,
\* whatever is written under METADATA_DIR afterwards; a request reads the
\* directory only of a family that has no entry, and the entry stored then is
\* the list of the files as they are at that request
C12_CacheNeverRefreshed ==
  /\ [][\A f \in DOMAIN meta_cache :
           /\ f \in DOMAIN meta_cache'
           /\ meta_cache'[f] = meta_cache[f]
           /\ Served => f \notin response'.reads]_vars
  /\ [][\A f \in DOMAIN meta_cache' \ DOMAIN meta_cache :
           /\ Served /\ f \in response'.reads
           /\ \E l \in Listings(find_files_by_extension(f, JsonExt)) : meta_cache'[f] = MetaList(l)]_vars

\* a stylesheet computed without reading any directory, from an entry stored
\* when the family had no file, after a later pass wrote a record with
\* coverage > 0 for the family
C12_Witness ==
  /\ response.status = 200 /\ ~response.memo_hit /\ response.reads = {}
  /\ response.after = 1 /\ passes = 1 /\ pc = "returned"
  /\ response.css = <<>>
  /\ \E sp \in response.key[1] :
       /\ meta_cache[FontNameOf(sp)] = <<>>
       /\ \E path \in find_files_by_extension(FontNameOf(sp), JsonExt) :
            meta_files[path].valid /\ meta_files[path].doc.coverage.num > 0

\* ------------------------------------------------------------------------
\* Properties of the files a pass leaves
\* ------------------------------------------------------------------------

\* an artifact of the family without its metadata record
Orphan(n) == Exists(cache_files, CachePathOf(n)) /\ ~Exists(meta_files, MetaPathOf(n))

\* the metadata files of the family of the pass
FamilyRecords == {path \in DOMAIN meta_files : path[1] = family}

\* after a normal return: one record per subset of the table, and no other
OneRecordEach ==
  /\ \A n \in Names :
       /\ Exists(meta_files, MetaPathOf(n))
       /\ Doc(MetaPathOf(n)).subset = n
       /\ Doc(MetaPathOf(n)).font_family = family
  /\ Cardinality(FamilyRecords) = Cardinality(Names)

Families == {FontFamilyOf(f) : f \in FontFileNames}

\* C14: the keys of two different subset indices of a family differ; every
\* task carries the key of its own (family, subset name), so no two tasks of
\* a pass have the same artifact path; and every metadata file and artifact
\* left by earlier passes lies at the path this pass derives for a subset,
\* the record there being the record of that subset
C14_KeyInjective ==
  /\ \A f \in Families : \A i, j \in 1..Len(SUBSET_TABLE) :
       i # j => get_subset_cache_key(f, SubsetName(i)) # get_subset_cache_key(f, SubsetName(j))
  /\ \A k \in 1..Len(tasks) :
       tasks[k].woff2_file_name = get_subset_cache_key(family, tasks[k].subset_name)
  /\ \A k, l \in 1..Len(tasks) :
       k # l => CachePath(tasks[k].woff2_file_name) # CachePath(tasks[l].woff2_file_name)
  /\ InPass =>
       /\ \A path \in DOMAIN meta_files :
            \E n \in Names : path = MetaPathOf(n) /\ (meta_files[path].valid => Doc(path).subset = n)
       /\ \A path \in DOMAIN cache_files : \E n \in Names : path = CachePathOf(n)
       /\ Cardinality(DOMAIN cache_files) = Cardinality({n \in Names : Exists(cache_files, CachePathOf(n))})

\* a second pass rebuilds two artifacts that the first pass wrote
C14_Witness ==
  /\ pc = "build" /\ passes = 2 /\ Len(tasks) >= 2
  /\ Cardinality(DOMAIN cache0) >= 2
  /\ \E n, m \in Dispatched : n # m /\ job[n].pc = "finished" /\ job[m].pc = "save"

\* ------------------------------------------------------------------------
\* Properties of parse_unicode_range
\* ------------------------------------------------------------------------

\* one or more hex digits and nothing else
IsHex(text) == Len(text) > 0 /\ \A i \in 1..Len(text) : text[i] \in DOMAIN HexValue

\* the digits of HHHH or U+HHHH, in either case of the letters
HexOf(text) == StripPrefixU(Upper(Strip(text)))

\* the codepoints of a token that is well formed: U+HHHH gives one codepoint,
\* U+HHHH-HHHH the inclusive range; any other token gives none
TokenCodepoints(token) ==
  LET t  == Strip(token)
      se == Split1(t, <<"-">>)
  IN  IF Len(se) = 1
      THEN (IF IsHex(HexOf(t)) THEN {HexDigits(HexOf(t), 1, 0)} ELSE {})
      ELSE (IF IsHex(HexOf(se[1])) /\ IsHex(HexOf(se[2]))
            THEN HexDigits(HexOf(se[1]), 1, 0)..HexDigits(HexOf(se[2]), 1, 0)
            ELSE {})

\* the union over the comma-separated tokens
WellFormedCodepoints(text) ==
  LET tokens == Split(text, <<",">>)
  IN  UNION {TokenCodepoints(tokens[i]) : i \in 1..Len(tokens)}

\* C15: parse_unicode_range returns (it never raises), and what it returns is
\* the union of the codepoints of the well-formed tokens of its argument: a
\* token with a character that is no hex digit, or without one of its bounds,
\* adds nothing; the empty string gives the empty set
C15_Tolerance ==
  parse_result # NotCalled =>
     /\ parse_result.kind = "returned"
     /\ parse_result.value = WellFormedCodepoints(parse_arg)
     /\ parse_arg = <<>> => parse_result.value = {}

\* ------------------------------------------------------------------------
\* Properties of the join
\* ------------------------------------------------------------------------

\* every dispatched job has ended and its outcome was collected
AllJoined ==
  \A n \in Dispatched :
     job[n].pc = "finished" /\ future[n].kind # "pending" /\ status[n] \in Terminal /\ Len(report[n]) = 1

\* C16: while jobs are planned or running no metadata file changes; a
\* metadata file changes only in the metadata phase, which is entered only
\* from the build phase with every dispatched job ended and collected (or
\* from planning without any task), also when jobs have failed; the build
\* phase ends in no other way
C16_JoinBeforeMeta ==
  /\ [](pc \in {"plan", "build"} => meta_files = meta0)
  /\ [](pc = "meta" => AllJoined)
  /\ [][meta_files' # meta_files => (pc = "meta" /\ AllJoined)]_vars
  /\ [][(pc = "build" /\ pc' # "build") => (pc' = "meta" /\ meta_i' = 1 /\ AllJoined)]_vars

\* the metadata phase has written a record after a build phase in which a
\* job raised at saving and another job, started later, was built
C16_Witness ==
  /\ pc = "meta" /\ meta_i = 2 /\ meta_files # meta0
  /\ \E n, m \in Dispatched :
       /\ status[n] = "Failed" /\ job[n].fault = "save"
       /\ status[m] = "Built"

\* ------------------------------------------------------------------------
\* Properties of a failed read and of the memo
\* ------------------------------------------------------------------------

\* a metadata file of the family does not parse
HasCorruptFile(f) == \E path \in DOMAIN meta_files : path[1] = f /\ ~meta_files[path].valid

\* the families the specs of a key name
FamiliesOf(key) == {FontNameOf(sp) : sp \in key[1]}

\* C17: a request that needs a family which has no entry in meta_cache and a
\* metadata file that does not parse ends with an error response; the
\* family still has no entry afterwards, nothing is memoized, and every
\* entry of meta_cache is a complete list of parsed files (never a partial
\* list, never an unparsed file)
C17_ReadFailure ==
  /\ [][\A f \in FamiliesOf(response'.key) :
           (Served /\ f # <<>> /\ f \notin DOMAIN meta_cache /\ HasCorruptFile(f))
           => /\ response'.status = 500
              /\ f \notin DOMAIN meta_cache'
              /\ css_memo' = css_memo]_vars
  /\ [][\A f \in DOMAIN meta_cache' \ DOMAIN meta_cache :
           /\ ~HasCorruptFile(f)
           /\ Len(meta_cache'[f]) = Cardinality(find_files_by_extension(f, JsonExt))
           /\ \A r \in 1..Len(meta_cache'[f]) : meta_cache'[f][r] # Corrupt.doc]_vars

\* after a request that failed on a corrupt file, a second request for the
\* family has read the directory again and failed again
C17_Witness ==
  /\ requests = 2 /\ response.status = 500
  /\ \E f \in FamiliesOf(response.key) :
       /\ f # <<>> /\ f \in response.reads
       /\ HasCorruptFile(f)
       /\ f \notin DOMAIN meta_cache
  /\ css_memo = <<>>

\* the same rules, each as often, in any order
SameRules(a, b) ==
  /\ Len(a) = Len(b)
  /\ \A r \in SeqToSet(a) \cup SeqToSet(b) :
       Cardinality({k \in 1..Len(a) : a[k] = r}) = Cardinality({k \in 1..Len(b) : b[k] = r})

\* the request follows a request with the same specs (as a set) and display
\* that returned a stylesheet
Repeated == Served /\ requests >= 1 /\ response.status = 200 /\ response'.key = response.key

\* C18 as stated: such a request is always served from the memo, with the
\* text of the first and without a call of get_meta_data
C18_AlwaysFromMemo ==
  [][Repeated => (/\ response'.memo_hit
                  /\ response'.css = response.css
                  /\ response'.reads = {}
                  /\ meta_cache' = meta_cache)]_vars

\* C18 amended: the memo is keyed by the set of specs and the display (the
\* order of the specs in the query does not matter); a stylesheet returned is
\* kept in the memo; a request whose key is in the memo is served from it,
\* with the stored text and without a call of get_meta_data, whatever
\* happened to the metadata files; a repeated request whose entry is no
\* longer in the memo returns the same rules again, from the lists in
\* meta_cache and without reading a directory
C18_MemoHit ==
  /\ [](FontFamiliesOf([family |-> FamilyTwoSpecs]) = FontFamiliesOf([family |-> FamilySwapped]))
  /\ [][(Served /\ response'.status = 200)
        => (response'.key \in DOMAIN css_memo' /\ css_memo'[response'.key] = response'.css)]_vars
  /\ [][(Served /\ response'.key \in DOMAIN css_memo)
        => (/\ response'.status = 200 /\ response'.memo_hit
            /\ response'.css = css_memo[response'.key]
            /\ response'.reads = {}
            /\ meta_cache' = meta_cache /\ css_memo' = css_memo)]_vars
  /\ [][Repeated => (/\ response'.status = 200
                     /\ SameRules(response'.css, response.css)
                     /\ response'.reads = {}
                     /\ response.key \in DOMAIN css_memo => response'.css = response.css)]_vars

\* a second request served from the memo, with rules, while the metadata file
\* the rules came from has been damaged since
C18_Witness ==
  /\ requests = 2 /\ response.status = 200 /\ response.memo_hit
  /\ Len(response.css) >= 2
  /\ \E f \in FamiliesOf(response.key) : HasCorruptFile(f)

\* ------------------------------------------------------------------------
\* Properties of the artifact files
\* ------------------------------------------------------------------------

\* C19 as stated: a file at an artifact path holds the complete bytes of a
\* successful subsetting call, and a step never turns a complete artifact
\* into a partial or absent one
C19_AtomicArtifact ==
  /\ [](\A path \in DOMAIN cache_files : cache_files[path].complete)
  /\ [][\A path \in DOMAIN cache_files :
          cache_files[path].complete => (Exists(cache_files', path) /\ cache_files'[path].complete)]_vars

\* C20 as stated: after a pass that returned, every record of the family with
\* coverage > 0 has its artifact in the cache directory
C20_RecordImpliesArtifact ==
  pc = "returned" =>
    \A n \in Names :
      (Exists(meta_files, MetaPathOf(n)) /\ Doc(MetaPathOf(n)).coverage.num > 0)
        => Exists(cache_files, CachePathOf(n))
====
